---- MODULE Spec2Model ----
(***************************************************************************)
(* Model of ik/src/joblist.c: the effector scan, the chain marker, the     *)
(* subtree partitioner and the job list rebuild (ik_joblist_update).       *)
(*                                                                         *)
(* A tree is a set of nodes 1..nnodes, node 1 being the tree root; every   *)
(* other node has a parent with a smaller number and the children of a     *)
(* node are enumerated in ascending order.  An effector is modelled by its *)
(* chain length, an algorithm by the node that carries it, a solver by the *)
(* subtree (root, leaves) and the algorithm it was created from.           *)
(***************************************************************************)
EXTENDS Integers, Sequences, FiniteSets, TLC

\* Bounds of the model.
MaxNodes == 3
MaxChainLen == 1
MaxHeld == 2

\* NULL for node pointers, and for node->effector.
NoNode == 0
NoEffector == -1

\* enum ik_marking, plus "no entry in the btree" and the -1 table entries.
MARK_SECTION == "MARK_SECTION"
MARK_BEGIN == "MARK_BEGIN"
MARK_END == "MARK_END"
MARK_BEGIN_AND_END == "MARK_BEGIN_AND_END"
NoMark == "NO_MARK"
InvalidMark == "INVALID"
Marks == {MARK_SECTION, MARK_BEGIN, MARK_END, MARK_BEGIN_AND_END}

\* ikret values the file uses.  The helpers return the int -1, which
\* ik_joblist_update stores in status and returns as it is.
IK_OK == "IK_OK"
IK_ERR_OUT_OF_MEMORY == "IK_ERR_OUT_OF_MEMORY"
IK_ERR_NO_EFFECTORS_FOUND == "IK_ERR_NO_EFFECTORS_FOUND"
MinusOne == "-1"
NotCalled == "NOT_CALLED"

VARIABLES
    nnodes,                 \* number of nodes of the tree
    parent,                 \* node->parent
    effector,               \* node->effector: its chain_length, or NoEffector
    algorithm,              \* node->algorithm != NULL
    joblist,                \* joblist->solvers
    pc,                     \* position of the caller / of ik_joblist_update
    status,                 \* value returned by the last ik_joblist_update
    effector_nodes,         \* local vector of ik_joblist_update
    marked_nodes,           \* local btree of ik_joblist_update
    ei,                     \* position of VECTOR_FOR_EACH in mark_nodes
    node,                   \* mark_nodes: node
    chain_length_counter,   \* mark_nodes: chain_length_counter
    new_mark,               \* mark_nodes: new_mark
    warned,                 \* nodes the "useless algorithm" warning named
    cause,                  \* why the last call ended as it did
    entry,                  \* joblist->solvers when the current call began
    prev,                   \* outcome of the call before the last one
    plog,                   \* what the last partitioning pass did
    hist                    \* per node: the marks its visits computed

vars == <<nnodes, parent, effector, algorithm, joblist, pc, status,
          effector_nodes, marked_nodes, ei, node, chain_length_counter,
          new_mark, warned, cause, entry, prev, plog, hist>>

tree == <<nnodes, parent, effector, algorithm>>

Nodes == 1..nnodes
TreeRoot == 1

----------------------------------------------------------------------------
\* Tree helpers (the node API the file uses).

RECURSIVE SetToSeq(_)
SetToSeq(S) ==
    IF S = {} THEN <<>>
    ELSE LET m == CHOOSE x \in S : \A y \in S : x <= y
         IN <<m>> \o SetToSeq(S \ {m})

\* NODE_FOR_EACH(node, user_data, child): the children, in order.
Children(n) == SetToSeq({c \in Nodes : parent[c] = n})

\* ik_node_child_count(node)
ik_node_child_count(n) == Cardinality({c \in Nodes : parent[c] = n})

RECURSIVE IsAncestor(_, _)
\* a is a strict ancestor of n
IsAncestor(a, n) ==
    IF parent[n] = NoNode THEN FALSE
    ELSE parent[n] = a \/ IsAncestor(a, parent[n])

Range(s) == {s[i] : i \in DOMAIN s}

----------------------------------------------------------------------------
\* find_all_effector_nodes: children first, then the node itself.

\* Faulty variant: the test on node->effector inverted.
find_all_effector_nodes_inverted(n) ==
    SetToSeq({m \in Nodes : effector[m] = NoEffector})

RECURSIVE find_all_effector_nodes(_), find_in_children(_)
find_in_children(kids) ==
    IF kids = <<>> THEN <<>>
    ELSE find_all_effector_nodes(Head(kids)) \o find_in_children(Tail(kids))

find_all_effector_nodes(n) ==
    find_in_children(Children(n))
        \o (IF effector[n] # NoEffector THEN <<n>> ELSE <<>>)

----------------------------------------------------------------------------
\* mark_nodes: the pieces of one loop iteration.

\* int chain_length_counter = chain_length != 0 ? chain_length : -1;
InitChainLengthCounter(chain_length) ==
    IF chain_length # 0 THEN chain_length ELSE -1

is_end_of_chain(n, counter) == counter = 0 \/ parent[n] = NoNode
has_children(n) == ik_node_child_count(n) > 0
has_algorithm(n) == algorithm[n]
has_effector(n) == effector[n] # NoEffector

Bit(b) == IF b THEN 1 ELSE 0

\* Faulty variant: has_effector() negated.
mark_idx_effector_negated(n, counter) ==
    Bit(is_end_of_chain(n, counter))
        + 2 * Bit(has_children(n))
        + 4 * Bit(~has_effector(n))
        + 8 * Bit(has_algorithm(n))

\* mark_idx = (is_end_of_chain() << 0) | (has_children() << 1)
\*          | (has_effector() << 2) | (has_algorithm() << 3)
mark_idx(n, counter) ==
    Bit(is_end_of_chain(n, counter))
        + 2 * Bit(has_children(n))
        + 4 * Bit(has_effector(n))
        + 8 * Bit(has_algorithm(n))

\* Faulty variant: entry 12 holds MARK_BEGIN_AND_END like its neighbours.
lookup_mark_row12(idx) ==
    CASE idx \in {0, 1, 8, 9} -> InvalidMark
      [] idx \in {2, 10}      -> MARK_SECTION
      [] idx \in {3, 11}      -> MARK_BEGIN
      [] idx \in {4, 5}       -> MARK_END
      [] OTHER                -> MARK_BEGIN_AND_END

\* const enum ik_marking lookup_mark[16]
lookup_mark(idx) ==
    CASE idx = 0  -> InvalidMark
      [] idx = 1  -> InvalidMark
      [] idx = 2  -> MARK_SECTION
      [] idx = 3  -> MARK_BEGIN
      [] idx = 4  -> MARK_END
      [] idx = 5  -> MARK_END
      [] idx = 6  -> MARK_BEGIN_AND_END
      [] idx = 7  -> MARK_BEGIN_AND_END
      [] idx = 8  -> InvalidMark
      [] idx = 9  -> InvalidMark
      [] idx = 10 -> MARK_SECTION
      [] idx = 11 -> MARK_BEGIN
      [] idx = 12 -> MARK_BEGIN
      [] idx = 13 -> MARK_BEGIN_AND_END
      [] idx = 14 -> MARK_BEGIN_AND_END
      [] idx = 15 -> MARK_BEGIN_AND_END

\* switch (mark_idx): the rows that log IK_FATAL and return -1, and the rows
\* that log the "useless algorithm" warning.
FatalIdx == {0, 1, 8, 9}
WarnIdx == {10, 11, 12}

\* Faulty variant: the existing mark overwritten by whatever the visit
\* computed.
StoreMarkAlways(existing, new) == new

\* btree_insert_or_get + the BTREE_EXISTS branch: the mark stored for a node
\* that holds `existing` (NoMark: no entry yet) after a visit computing `new`.
StoreMark(existing, new) ==
    IF existing = NoMark THEN new
    ELSE IF new = MARK_SECTION THEN MARK_SECTION
    ELSE existing

\* The walk after one visit of node n: the loop body of mark_nodes ends with
\* the break test and has no other statement, so the node and the counter of
\* the next iteration are those of this one.
WalkNext(n, counter) == [node |-> n, counter |-> counter]

----------------------------------------------------------------------------
\* new_solver: the node whose algorithm governs the subtree rooted at r
\* (NoNode: algorithm == NULL).
\*   for (node = subtree->root; node->parent != NULL; node = node->parent)
\*       if (node->algorithm != NULL) { algorithm = node->algorithm; break; }
RECURSIVE new_solver_algorithm(_)
new_solver_algorithm(n) ==
    IF parent[n] = NoNode THEN NoNode
    ELSE IF algorithm[n] THEN n
    ELSE new_solver_algorithm(parent[n])

\* Faulty variant: the solver inserted at the front.
PushSolverFront(solvers, solver) == <<solver>> \o solvers

\* vector_push(&joblist->solvers, &solver)
PushSolver(solvers, solver) == Append(solvers, solver)

\* Faulty variant: one solver removed instead of all.
ClearOldSolversButLast(solvers) ==
    IF solvers = <<>> THEN <<>> ELSE Tail(solvers)

\* "clear old solvers": every solver freed, vector_clear_compact.
ClearOldSolvers(solvers) == <<>>

----------------------------------------------------------------------------
\* alloc_solvers / recurse_with_new_subtree.
\*
\* The recursion threads a context c:
\*   solvers   joblist->solvers
\*   leaves    current_subtree->leaves of the subtree being filled
\*   res       "ok", "fail" (a call returned -1) or "crash" (the process died)
\*   cause     why res is not "ok"
\*   allocs    allocations / solver creations attempted so far
\*   failAt    the attempt that fails (0: none does)
\*   ub        what the push through a NULL current_subtree does
\*   visited   nodes alloc_solvers was called on
\*   roots     nodes recurse_with_new_subtree was called on
\*   nullpush  nodes pushed as a leaf while current_subtree was NULL
\* cur is the root of current_subtree, NoNode when current_subtree is NULL.

Attempt(c) == [c EXCEPT !.allocs = @ + 1]
Fails(c) == c.allocs + 1 = c.failAt
Failed(c, why) == [Attempt(c) EXCEPT !.res = "fail", !.cause = why]

\* assert(current_subtree != NULL);
\* vector_push(&current_subtree->leaves, &node)
\* With current_subtree NULL the assertion aborts the process; a build
\* without assertions pushes through a NULL pointer, which is undefined: the
\* process dies ("abort" stands for both), or the call comes back reporting
\* failure ("push_fail", the branch that returns -1) or success ("push_ok",
\* no leaf recorded anywhere).
PushLeaf(c, cur, n) ==
    IF cur = NoNode
    THEN LET c1 == [c EXCEPT !.nullpush = @ \cup {n}]
         IN CASE c.ub = "abort"     -> [c1 EXCEPT !.res = "crash",
                                                  !.cause = "null_subtree"]
              [] c.ub = "push_fail" -> [c1 EXCEPT !.res = "fail",
                                                  !.cause = "oom"]
              [] OTHER              -> c1
    ELSE IF Fails(c) THEN Failed(c, "oom")
    ELSE [Attempt(c) EXCEPT !.leaves = Append(@, n)]

RECURSIVE alloc_solvers(_, _, _), alloc_children(_, _, _),
          recurse_with_new_subtree(_, _)

\* NODE_FOR_EACH(node, user_data, child)
\*     if (alloc_solvers(joblist, subtree, child, marked_nodes) != 0) return/goto
alloc_children(c, cur, kids) ==
    IF kids = <<>> \/ c.res # "ok" THEN c
    ELSE alloc_children(alloc_solvers(c, cur, Head(kids)), cur, Tail(kids))

recurse_with_new_subtree(c, n) ==
    LET c0 == [c EXCEPT !.roots = @ \cup {n}] IN
    IF Fails(c0) THEN Failed(c0, "oom")                  \* ik_subtree_init
    ELSE
    LET outer == c0.leaves
        c1 == alloc_children([Attempt(c0) EXCEPT !.leaves = <<>>], n,
                             Children(n))
        a == new_solver_algorithm(n)
    IN  IF c1.res # "ok" THEN c1                         \* recurse_failed
        ELSE IF a = NoNode
        THEN [c1 EXCEPT !.res = "fail", !.cause = "no_algorithm"]
        ELSE IF Fails(c1) THEN Failed(c1, "solver_create") \* ik_solver_create
        ELSE LET c2 == Attempt(c1) IN
             IF Fails(c2) THEN Failed(c2, "oom")         \* vector_push
             ELSE [Attempt(c2) EXCEPT
                     !.solvers = PushSolver(@, [root |-> n,
                                                leaves |-> c1.leaves,
                                                algorithm |-> a]),
                     !.leaves = outer]

\* alloc_solvers with the descent going on below a node that has no mark, as
\* if "if (mark)" were absent and the node were a MARK_SECTION.
alloc_solvers_no_prune(c, cur, n) ==
    LET m == c.marks[n]
        c0 == [c EXCEPT !.visited = @ \cup {n}]
    IN  CASE m = MARK_END ->
               LET c1 == PushLeaf(c0, cur, n)
               IN  IF c1.res # "ok" THEN c1
                   ELSE alloc_children(c1, cur, Children(n))
          [] m = MARK_BEGIN_AND_END ->
               LET c1 == PushLeaf(c0, cur, n)
               IN  IF c1.res # "ok" THEN c1
                   ELSE recurse_with_new_subtree(c1, n)
          [] m = MARK_BEGIN -> recurse_with_new_subtree(c0, n)
          [] OTHER -> alloc_children(c0, cur, Children(n))

alloc_solvers(c, cur, n) ==
    LET m == c.marks[n]
        c0 == [c EXCEPT !.visited = @ \cup {n}]
    IN  CASE m = MARK_END ->
               LET c1 == PushLeaf(c0, cur, n)
               IN  IF c1.res # "ok" THEN c1
                   ELSE alloc_children(c1, cur, Children(n))
          [] m = MARK_SECTION -> alloc_children(c0, cur, Children(n))
          [] m = MARK_BEGIN_AND_END ->
               LET c1 == PushLeaf(c0, cur, n)
               IN  IF c1.res # "ok" THEN c1
                   ELSE recurse_with_new_subtree(c1, n)
          [] m = MARK_BEGIN -> recurse_with_new_subtree(c0, n)
          [] OTHER -> c0

UBOutcomes == {"abort", "push_ok", "push_fail"}

PartitionCtx(solvers, marks, failAt, ub) ==
    [solvers |-> solvers, leaves |-> <<>>, res |-> "ok", cause |-> "none",
     allocs |-> 0, failAt |-> failAt, ub |-> ub, marks |-> marks,
     visited |-> {}, roots |-> {}, nullpush |-> {}]

\* alloc_solvers(joblist, NULL, root, &marked_nodes)
SplitIntoSubtrees(solvers, marks, failAt, ub) ==
    alloc_solvers(PartitionCtx(solvers, marks, failAt, ub), NoNode, TreeRoot)

----------------------------------------------------------------------------
\* States.

NoMarks == [n \in Nodes |-> NoMark]
NoLog == [marks |-> <<>>, visited |-> {}, roots |-> {}, nullpush |-> {}]
NoPrev == [status |-> NotCalled, solvers |-> <<>>, cause |-> "none"]

\* What the visits of one node computed so far: the mark of the first visit
\* (NoMark: never visited) and whether any visit computed MARK_SECTION.
NoVisit == [first |-> NoMark, section |-> FALSE]
NoHist == [n \in Nodes |-> NoVisit]
Visit(h, m) ==
    [first |-> IF h.first = NoMark THEN m ELSE h.first,
     section |-> h.section \/ m = MARK_SECTION]

\* Failures the environment injects (allocation, solver creation), as
\* opposed to outcomes the tree decides.
EnvCauses == {"oom", "solver_create"}

\* The trees: node 1 is the root, parent[n] < n.
TreeShapes(k) ==
    {p \in [1..k -> 0..(k - 1)] :
        /\ p[1] = NoNode
        /\ \A n \in 2..k : p[n] # NoNode /\ p[n] < n}

InitTree ==
    /\ nnodes \in 1..MaxNodes
    /\ parent \in TreeShapes(nnodes)
    /\ effector \in [1..nnodes -> {NoEffector} \cup 0..MaxChainLen]
    /\ algorithm \in [1..nnodes -> BOOLEAN]

InitLocals ==
    /\ pc = "idle"
    /\ status = NotCalled
    /\ effector_nodes = <<>>
    /\ marked_nodes = NoMarks
    /\ ei = 0
    /\ node = NoNode
    /\ chain_length_counter = 0
    /\ new_mark = NoMark
    /\ warned = {}
    /\ cause = "none"
    /\ prev = NoPrev
    /\ plog = NoLog
    /\ hist = NoHist

\* ik_joblist_create up to its call of ik_joblist_update: vector_init.
Init ==
    /\ InitTree
    /\ joblist = <<>>
    /\ entry = <<>>
    /\ InitLocals

\* A solver left in the list by an earlier build.
HeldSolver == [root |-> TreeRoot, leaves |-> <<TreeRoot>>, algorithm |-> TreeRoot]
HeldLists == {[i \in 1..k |-> HeldSolver] : k \in 0..MaxHeld}

\* ik_joblist_update(joblist, root) seen as a function of its two arguments:
\* the list passed in holds any sequence of solvers.
InitHeld ==
    /\ InitTree
    /\ joblist \in HeldLists
    /\ entry = joblist
    /\ InitLocals

\* The nodes mark_nodes has warned about when it leaves the marks m: a node
\* with an algorithm, children and no effector gets MARK_SECTION or MARK_BEGIN
\* only from the rows 10 and 11 of the table, which log the warning.
WarnedFor(m) ==
    {n \in Nodes : /\ algorithm[n] /\ has_children(n) /\ ~has_effector(n)
                   /\ m[n] \in {MARK_SECTION, MARK_BEGIN}}

\* alloc_solvers seen as a function of the tree and the mark map: the state
\* of ik_joblist_update at its "clear old solvers" step, for any mark map.
InitPartition ==
    /\ nnodes \in 1..MaxNodes
    /\ parent \in TreeShapes(nnodes)
    /\ algorithm \in [1..nnodes -> BOOLEAN]
    /\ marked_nodes \in [1..nnodes -> Marks \cup {NoMark}]
    /\ effector = [n \in 1..nnodes |->
                     IF marked_nodes[n] \in {MARK_END, MARK_BEGIN_AND_END}
                     THEN 0 ELSE NoEffector]
    /\ joblist = <<HeldSolver>>
    /\ entry = joblist
    /\ pc = "partition"
    /\ status = NotCalled
    /\ effector_nodes = find_all_effector_nodes(TreeRoot)
    /\ ei = 0
    /\ node = NoNode
    /\ chain_length_counter = 0
    /\ new_mark = NoMark
    /\ warned = WarnedFor(marked_nodes)
    /\ cause = "none"
    /\ prev = NoPrev
    /\ plog = NoLog
    /\ hist = [n \in Nodes |->
                 [first |-> marked_nodes[n],
                  section |-> marked_nodes[n] = MARK_SECTION]]

\* One loop iteration of mark_nodes seen as a function of the node it is at,
\* the counter and the entry the btree holds for that node: the state of
\* mark_nodes at the top of its loop, for any node, any counter value and any
\* entry (with the visits that left it).  The chain length of an effector
\* enters the iteration only through the counter, which is drawn freely.
Histories ==
    {h \in [first : Marks \cup {NoMark}, section : BOOLEAN] :
        /\ h.first = NoMark => ~h.section
        /\ h.first = MARK_SECTION => h.section}
StoredFor(h) ==
    IF h.first = NoMark THEN NoMark
    ELSE IF h.section THEN MARK_SECTION ELSE h.first

InitMark ==
    /\ nnodes \in 1..MaxNodes
    /\ parent \in TreeShapes(nnodes)
    /\ effector \in [1..nnodes -> {NoEffector, 0}]
    /\ algorithm \in [1..nnodes -> BOOLEAN]
    /\ effector_nodes = find_all_effector_nodes(TreeRoot)
    /\ effector_nodes # <<>>
    /\ ei = 1
    /\ node \in 1..nnodes
    /\ chain_length_counter \in (-1)..MaxChainLen
    /\ \E h \in Histories :
          /\ hist = [n \in Nodes |-> IF n = node THEN h ELSE NoVisit]
          /\ marked_nodes = [n \in Nodes |->
                               IF n = node THEN StoredFor(h) ELSE NoMark]
    /\ joblist = <<>>
    /\ entry = <<>>
    /\ pc = "mark_classify"
    /\ status = NotCalled
    /\ new_mark = NoMark
    /\ warned = {}
    /\ cause = "none"
    /\ prev = NoPrev
    /\ plog = NoLog

----------------------------------------------------------------------------
\* Actions.

\* return status; with the locals of the call gone (btree_deinit,
\* vector_deinit).
Return(s, why, solvers) ==
    /\ pc' = "idle"
    /\ status' = s
    /\ cause' = why
    /\ joblist' = solvers
    /\ effector_nodes' = <<>>
    /\ marked_nodes' = NoMarks
    /\ ei' = 0
    /\ node' = NoNode
    /\ chain_length_counter' = 0
    /\ new_mark' = NoMark
    /\ hist' = NoHist

\* mark_nodes: the head of VECTOR_FOR_EACH for the k-th effector node.
StartWalk(effs, k) ==
    /\ pc' = "mark_classify"
    /\ ei' = k
    /\ node' = effs[k]
    /\ chain_length_counter' = InitChainLengthCounter(effector[effs[k]])
    /\ new_mark' = NoMark

\* ik_joblist_update, from its entry to the call of mark_nodes.
Update ==
    /\ pc = "idle"
    /\ entry' = joblist
    /\ prev' = [status |-> status, solvers |-> joblist, cause |-> cause]
    /\ warned' = {}
    /\ plog' = NoLog
    /\ \E fail \in {"none", "vector_init", "vector_push", "btree_init"} :
         LET found == find_all_effector_nodes(TreeRoot)
         IN  IF fail = "vector_init"
             THEN Return(IK_ERR_OUT_OF_MEMORY, "oom", joblist)
             ELSE IF fail = "vector_push" /\ found # <<>>
             THEN Return(MinusOne, "oom", joblist)
             ELSE IF found = <<>>
             THEN Return(IK_ERR_NO_EFFECTORS_FOUND, "no_effectors", joblist)
             ELSE IF fail = "btree_init"
             THEN Return(IK_ERR_OUT_OF_MEMORY, "oom", joblist)
             ELSE /\ effector_nodes' = found
                  /\ marked_nodes' = NoMarks
                  /\ StartWalk(found, 1)
                  /\ hist' = NoHist
                  /\ UNCHANGED <<joblist, status, cause>>
    /\ UNCHANGED tree

\* mark_nodes, one loop iteration, first half: mark_idx, new_mark, and the
\* switch that logs (and returns -1 on the fatal rows).
MarkClassify ==
    /\ pc = "mark_classify"
    /\ LET idx == mark_idx(node, chain_length_counter)
       IN  IF idx \in FatalIdx
           THEN /\ Return(MinusOne, "fatal", joblist)
                /\ UNCHANGED warned
           ELSE /\ new_mark' = lookup_mark(idx)
                /\ warned' = IF idx \in WarnIdx THEN warned \cup {node}
                             ELSE warned
                /\ pc' = "mark_insert"
                /\ UNCHANGED <<joblist, status, cause, effector_nodes,
                               marked_nodes, ei, node, chain_length_counter,
                               hist>>
    /\ UNCHANGED <<tree, entry, prev, plog>>

\* mark_nodes, one loop iteration, second half: btree_insert_or_get, the
\* merge, the break test; after the break the next effector node, or the
\* return of mark_nodes into ik_joblist_update.
MarkInsert ==
    /\ pc = "mark_insert"
    /\ \E fail \in BOOLEAN :
         IF fail /\ marked_nodes[node] = NoMark
         THEN Return(MinusOne, "oom", joblist)
         ELSE /\ marked_nodes' =
                    [marked_nodes EXCEPT ![node] = StoreMark(@, new_mark)]
              /\ hist' = [hist EXCEPT ![node] = Visit(@, new_mark)]
              /\ IF is_end_of_chain(node, chain_length_counter)
                 THEN IF ei < Len(effector_nodes)
                      THEN StartWalk(effector_nodes, ei + 1)
                      ELSE /\ pc' = "partition"
                           /\ node' = NoNode
                           /\ chain_length_counter' = 0
                           /\ new_mark' = NoMark
                           /\ ei' = 0
                 ELSE LET w == WalkNext(node, chain_length_counter)
                      IN  /\ pc' = "mark_classify"
                          /\ node' = w.node
                          /\ chain_length_counter' = w.counter
                          /\ UNCHANGED <<ei, new_mark>>
              /\ UNCHANGED <<joblist, status, cause, effector_nodes>>
    /\ UNCHANGED <<tree, entry, prev, plog, warned>>

\* ik_joblist_update after mark_nodes: the old solvers are freed and the
\* vector cleared, then alloc_solvers(joblist, NULL, root, &marked_nodes).
Partition ==
    /\ pc = "partition"
    /\ LET cleared == ClearOldSolvers(joblist)
           total == SplitIntoSubtrees(cleared, marked_nodes, 0, "push_ok").allocs
       IN  \E failAt \in 0..total, ub \in UBOutcomes :
             LET c == SplitIntoSubtrees(cleared, marked_nodes, failAt, ub)
             IN  /\ plog' = [marks |-> marked_nodes, visited |-> c.visited,
                             roots |-> c.roots, nullpush |-> c.nullpush]
                 /\ IF c.res = "crash"
                    THEN /\ pc' = "crashed"
                         /\ cause' = c.cause
                         /\ joblist' = c.solvers
                         /\ UNCHANGED <<status, effector_nodes, marked_nodes,
                                        ei, node, chain_length_counter,
                                        new_mark, hist>>
                    ELSE Return(IF c.res = "ok" THEN IK_OK ELSE MinusOne,
                                c.cause, c.solvers)
    /\ UNCHANGED <<tree, entry, prev, warned>>

Next == Update \/ MarkClassify \/ MarkInsert \/ Partition

\* The library as its own constructor leaves it: an empty list.
Spec == Init /\ [][Next]_vars

\* The calling thread keeps running: a step that can be taken is taken.
FairSpec == Init /\ [][Next]_vars /\ WF_vars(Next)

\* ik_joblist_update on a list that holds solvers.
SpecHeld == InitHeld /\ [][Next]_vars

\* The partitioner on any mark map.
SpecPartition == InitPartition /\ [][Next]_vars

\* The loop body of mark_nodes on any node, counter and btree entry.
SpecMark == InitMark /\ [][Next]_vars

TypeOK ==
    /\ nnodes \in 1..MaxNodes
    /\ pc \in {"idle", "mark_classify", "mark_insert", "partition", "crashed"}
    /\ status \in {NotCalled, IK_OK, IK_ERR_OUT_OF_MEMORY,
                   IK_ERR_NO_EFFECTORS_FOUND, MinusOne}
    /\ marked_nodes \in [Nodes -> Marks \cup {NoMark}]
    /\ node \in 0..nnodes
    /\ new_mark \in Marks \cup {NoMark}
    /\ \A i \in DOMAIN joblist : joblist[i].root \in Nodes

----------------------------------------------------------------------------
\* Vocabulary of the properties.

Returned == pc = "idle" /\ status # NotCalled
Marking == pc \in {"mark_classify", "mark_insert"}
EffectorNodeSet == {n \in Nodes : effector[n] # NoEffector}
NoEffectorsInTree == EffectorNodeSet = {}
IsLeaf(n) == ik_node_child_count(n) = 0
LinearChain == \A n \in 2..nnodes : parent[n] = n - 1
SomeAlgorithm == \E n \in Nodes : algorithm[n]
\* The list holds exactly one solver, for the subtree (r, leaves).
OneJob(r, leaves) ==
    /\ Len(joblist) = 1
    /\ joblist[1].root = r
    /\ joblist[1].leaves = leaves
\* The call ended without any injected failure.
CleanReturn == Returned /\ cause \notin EnvCauses

----------------------------------------------------------------------------
C2_MarkingTerminates == Marking ~> ~Marking

\* C3: after a successful update, a solver whose subtree root is a
\* descendant of another solver's subtree root comes strictly before it.
C3_DependencyOrder ==
    (Returned /\ status = IK_OK) =>
        \A i, j \in DOMAIN joblist :
            IsAncestor(joblist[j].root, joblist[i].root) => i < j

C3_Witness ==
    /\ Returned /\ status = IK_OK
    /\ \E i, j \in DOMAIN joblist :
          i < j /\ IsAncestor(joblist[j].root, joblist[i].root)

\* C4: on a tree without effectors the update returns the "no effectors
\* found" status (unless an allocation failed first) and the job list is
\* what it was when the call began.
C4_NoEffectorsLeavesList ==
    (Returned /\ NoEffectorsInTree) =>
        /\ joblist = entry
        /\ (cause \notin EnvCauses => status = IK_ERR_NO_EFFECTORS_FOUND)

C4_Witness ==
    /\ Returned /\ NoEffectorsInTree
    /\ status = IK_ERR_NO_EFFECTORS_FOUND
    /\ joblist = entry /\ joblist # <<>>

\* C5: on a linear chain (root down to one leaf, at least two nodes) with one
\* effector of chain length 0 on the leaf and an algorithm on the chain, the
\* update returns success with exactly one solver, rooted at the tree root,
\* whose only leaf is the effector node (unless an allocation fails).
C5_Config ==
    /\ nnodes >= 2 /\ LinearChain /\ SomeAlgorithm
    /\ effector = [n \in Nodes |-> IF n = nnodes THEN 0 ELSE NoEffector]

C5_SingleUnboundedChain ==
    (C5_Config /\ pc = "mark_classify") ~>
        (Returned /\ (cause \in EnvCauses
                      \/ (status = IK_OK /\ OneJob(TreeRoot, <<nnodes>>))))

\* C6: on a linear chain of N nodes with one effector of chain length L,
\* 0 < L < N, on the leaf, the update produces exactly one solver, rooted L
\* steps above the effector node, whose only leaf is the effector node
\* (unless an allocation fails).
C6_Config ==
    /\ nnodes >= 2 /\ LinearChain /\ \A n \in Nodes : algorithm[n]
    /\ effector[nnodes] \in 1..(nnodes - 1)
    /\ \A n \in Nodes : n # nnodes => effector[n] = NoEffector

C6_TruncatedChain ==
    (C6_Config /\ pc = "mark_classify") ~>
        (Returned /\ (cause \in EnvCauses
                      \/ (status = IK_OK
                          /\ OneJob(nnodes - effector[nnodes], <<nnodes>>))))

\* C7: with two effectors of unlimited chain length on sibling branches
\* under the tree root, the update produces exactly one solver whose leaves
\* are the two effector nodes (unless an allocation fails).
C7_Config ==
    /\ Cardinality(EffectorNodeSet) = 2
    /\ \A n \in EffectorNodeSet : effector[n] = 0 /\ IsLeaf(n)
    /\ \A a, b \in EffectorNodeSet : ~IsAncestor(a, b)
    /\ \A n \in Nodes : algorithm[n]

C7_ConvergingChains ==
    (C7_Config /\ pc = "mark_classify") ~>
        (Returned /\ (cause \in EnvCauses
                      \/ (status = IK_OK
                          /\ Len(joblist) = 1
                          /\ Len(joblist[1].leaves) = 2
                          /\ Range(joblist[1].leaves) = EffectorNodeSet)))

\* C8: two updates in a row on an unchanged tree, neither hit by an injected
\* failure, return the same status and leave the same solver sequence (same
\* subtree roots, same leaves, same order).
C8_UpdateIdempotent ==
    (CleanReturn /\ prev.status # NotCalled /\ prev.cause \notin EnvCauses) =>
        /\ status = prev.status
        /\ joblist = prev.solvers

C8_Witness ==
    /\ CleanReturn /\ prev.status # NotCalled /\ prev.cause \notin EnvCauses
    /\ joblist # <<>>

\* C9: a rebuild aborted because no algorithm is resolvable, or by the fatal
\* leaf check, does not return the value an allocation failure returns.
C9_StatusTaxonomy ==
    (Returned /\ cause \in {"no_algorithm", "fatal"} /\ prev.cause = "oom")
        => status # prev.status

\* C10: marking visits only effector nodes and their ancestors; a leaf
\* without an effector is never visited and never marked, and the fatal
\* branch of mark_nodes is never taken.
C10_FatalUnreachable ==
    /\ cause # "fatal"
    /\ Marking =>
          \/ has_effector(node)
          \/ \E e \in EffectorNodeSet : IsAncestor(node, e)
    /\ \A n \in Nodes :
          marked_nodes[n] # NoMark => (has_effector(n) \/ ~IsLeaf(n))

C10_Witness ==
    /\ pc = "partition"
    /\ \E n \in Nodes : IsLeaf(n) /\ ~has_effector(n)
    /\ \E n \in Nodes : marked_nodes[n] # NoMark

----------------------------------------------------------------------------
\* Vocabulary of the properties about one partitioning pass.

\* The partitioning pass of the current call has run (and nothing since).
Partitioned == plog.marks # <<>>

RECURSIVE NearestAlgorithmAbove(_)
\* The nearest strict ancestor of n that carries an algorithm, the tree root
\* included (NoNode: none does).
NearestAlgorithmAbove(n) ==
    IF parent[n] = NoNode THEN NoNode
    ELSE IF algorithm[parent[n]] THEN parent[n]
    ELSE NearestAlgorithmAbove(parent[n])

\* n has a strict ancestor without a mark in the marks m.
UnderUnmarked(m, n) ==
    \E a \in Nodes : IsAncestor(a, n) /\ m[a] = NoMark

TableMark(E, C, F, A) ==
    IF ~C /\ ~F THEN "FATAL"
    ELSE IF ~F THEN (IF E THEN MARK_BEGIN ELSE MARK_SECTION)
    ELSE IF ~C /\ ~A THEN MARK_END
    ELSE IF ~E /\ ~C /\ A THEN MARK_BEGIN
    ELSE MARK_BEGIN_AND_END

TableMarkAt(n, counter) ==
    TableMark(counter = 0 \/ parent[n] = NoNode,
              \E c \in Nodes : parent[c] = n,
              effector[n] # NoEffector,
              algorithm[n])

C12_MarkTable ==
    [][pc = "mark_classify" =>
         LET t == TableMarkAt(node, chain_length_counter)
         IN  IF t = "FATAL"
             THEN pc' = "idle" /\ cause' = "fatal" /\ status' = MinusOne
             ELSE pc' = "mark_insert" /\ new_mark' = t]_vars

C12_Witness ==
    /\ pc = "mark_insert" /\ new_mark = MARK_BEGIN
    /\ chain_length_counter # 0 /\ parent[node] # NoNode
    /\ IsLeaf(node) /\ has_effector(node) /\ algorithm[node]

\* C13: the mark stored for a visited node is SECTION if any of its visits
\* computed SECTION, and otherwise the mark its first visit computed: a later
\* BEGIN, END or BEGIN_AND_END overwrites nothing and a stored SECTION stays.
C13_MergeRule ==
    \A n \in Nodes :
        IF hist[n].first = NoMark THEN marked_nodes[n] = NoMark
        ELSE IF hist[n].section THEN marked_nodes[n] = MARK_SECTION
        ELSE marked_nodes[n] = hist[n].first

\* A visit computing SECTION has overwritten a boundary mark.
C13_Witness ==
    /\ pc = "mark_classify" /\ new_mark = MARK_SECTION
    /\ hist[node].first \in {MARK_BEGIN, MARK_END, MARK_BEGIN_AND_END}
    /\ marked_nodes[node] = MARK_SECTION

C15_PruneUnmarked ==
    Partitioned =>
        \A n \in Nodes :
            UnderUnmarked(plog.marks, n) =>
                /\ n \notin plog.visited
                /\ n \notin plog.roots
                /\ \A i \in DOMAIN joblist :
                       /\ joblist[i].root # n
                       /\ n \notin Range(joblist[i].leaves)

\* The descent has reached an unmarked node below which a node is marked to
\* open a subtree, and the rebuild has returned success.
C15_Witness ==
    /\ Partitioned
    /\ status = IK_OK
    /\ \E n \in plog.visited, d \in Nodes :
          /\ plog.marks[n] = NoMark
          /\ IsAncestor(n, d)
          /\ plog.marks[d] \in {MARK_BEGIN, MARK_BEGIN_AND_END}

\* C16: whenever the partitioner appends a node marked MARK_END or
\* MARK_BEGIN_AND_END as a leaf, current_subtree is not NULL; the tree root
\* included.
C16_EnclosingSubtree ==
    Partitioned => plog.nullpush = {}

\* C17: when ik_joblist_update has returned IK_OK the job list is not empty
\* and every node that carries an effector is a leaf of exactly one solver.
C17_EffectorCoverage ==
    (Returned /\ status = IK_OK) =>
        /\ joblist # <<>>
        /\ \A e \in EffectorNodeSet :
               Cardinality({i \in DOMAIN joblist :
                               e \in Range(joblist[i].leaves)}) = 1
====
